---- MODULE Spec2Model ----
(***************************************************************************)
(* A model of the auth + history backend of src/server.js (lines 1-351,    *)
(* the MongoDB/JWT variant): the users and history collections, the JWT    *)
(* middleware and the register, login, me, save, get, clear and delete     *)
(* handlers.                                                               *)
(*                                                                         *)
(* A handler runs in turns of node's event loop.  Every await ends a turn: *)
(* the other connections' requests and the clock move before the handler   *)
(* resumes.  A store call is three steps: the turn that calls it (and      *)
(* reads the clock for the values it passes), the store applying it, and   *)
(* the turn that resumes with its result.  A bcrypt call is two: the turn  *)
(* that calls it and the turn that resumes with its result, which depends  *)
(* on its arguments only.  A response is sent in the turn that reaches it. *)
(***************************************************************************)
EXTENDS Integers, Sequences, FiniteSets, TLC

VARIABLES
    users,      \* usersCollection: a set of user documents
    history,    \* historyCollection: a set of translation documents
    nextId,     \* the next ObjectId the driver generates
    budget,     \* saves the model still explores (a bound, not program state)
    now,        \* the server clock (Date.now()), in days
    conn,       \* per connection: the request in flight and where its handler
                \* waits, or the response the connection received
    issued      \* every token the server has returned so far

vars == <<users, history, nextId, budget, now, conn, issued>>

-----------------------------------------------------------------------------
(* Bounds of the exploration *)

MaxTime == 1
MaxInserts == 2
MaxAuthInserts == 2
MaxExtraSaves == 2

(* Program constants *)

MinPasswordLength == 6
BcryptRounds == 10
ExpiresInDays == 30
HistoryLimit == 100

JWT_SECRET == "traduciamo-secret-key-change-in-production"

Clients == {"c1", "c2"}

-----------------------------------------------------------------------------
(* JSON values of a request body whose type matters to the code.  A password
   is a JSON value; the other body fields are strings, "" standing for a
   missing or empty (falsy) field. *)

Str(s) == [type |-> "string", val |-> s]
JsonNumber == [type |-> "number", val |-> "123456"]
JsonUndefined == [type |-> "undefined", val |-> ""]

\* !v of JavaScript
Falsy(v) == v.type = "undefined" \/ (v.type = "string" /\ v.val = "")

\* password.length < 6: the length of a number is undefined, and
\* undefined < 6 is false
TooShort(password) ==
    password.type = "string" /\ Len(password.val) < MinPasswordLength

\* email.split('@')[0]
LocalPart(email) ==
    CASE email = "a@x.com" -> "a"
      [] email = "b@x.com" -> "b"
      [] OTHER -> email

-----------------------------------------------------------------------------
(* bcrypt *)

Salts == {"salt1"}

NoHash == [cost |-> 0, salt |-> "", digest |-> <<"", "">>]

\* bcrypt.hash(data, rounds): rejects when data is not a string; the digest
\* embeds cost and salt
bcryptHash(data, rounds, salt) ==
    IF data.type # "string"
    THEN [ok |-> FALSE, hash |-> NoHash]
    ELSE [ok |-> TRUE,
          hash |-> [cost |-> rounds, salt |-> salt, digest |-> <<salt, data.val>>]]

\* bcrypt.compare(data, hash): rejects ("data and hash must be strings") when
\* data is not a string, else resolves to whether data hashes to hash
bcryptCompare(data, hash) ==
    IF data.type # "string"
    THEN [ok |-> FALSE, match |-> FALSE]
    ELSE [ok |-> TRUE, match |-> hash.digest = <<hash.salt, data.val>>]

-----------------------------------------------------------------------------
(* jsonwebtoken *)

NoPayload == [userId |-> 0, email |-> "", iat |-> 0, exp |-> 0]
NoToken == [kind |-> "none", payload |-> NoPayload, sig |-> <<NoPayload, "">>]

\* HS256 over the payload: equal only for the same payload and the same key
Hmac(payload, secret) == <<payload, secret>>

\* jwt.sign({userId, email}, secret, {expiresIn: '30d'}) at time t
jwtSign(userId, email, secret, expiresIn, t) ==
    LET payload == [userId |-> userId, email |-> email,
                    iat |-> t, exp |-> t + expiresIn]
    IN [kind |-> "jwt", payload |-> payload, sig |-> Hmac(payload, secret)]

jwtVerifyLate(token, secret, t) ==
    IF token.kind = "jwt" /\ token.sig = Hmac(token.payload, secret)
       /\ t <= token.payload.exp
    THEN [err |-> FALSE, decoded |-> token.payload]
    ELSE [err |-> TRUE, decoded |-> NoPayload]

\* jwt.verify(token, secret, cb) at time t: an error for a malformed token, a
\* signature that does not match, or an expired token (now >= exp)
jwtVerify(token, secret, t) ==
    IF token.kind = "jwt" /\ token.sig = Hmac(token.payload, secret)
       /\ t < token.payload.exp
    THEN [err |-> FALSE, decoded |-> token.payload]
    ELSE [err |-> TRUE, decoded |-> NoPayload]

-----------------------------------------------------------------------------
(* The Authorization header, as the words authHeader.split(' ') yields; <<>>
   is a request without the header. *)

Word(s) == [kind |-> "text", payload |-> NoPayload, sig |-> <<NoPayload, s>>]
Bearer == Word("Bearer")
Basic == Word("Basic")
Garbage == Word("garbage")
EmptyWord == Word("")
UndefinedWord == [kind |-> "undefined", payload |-> NoPayload, sig |-> <<NoPayload, "">>]

\* authHeader && authHeader.split(' ')[1]
TokenOf(hdr) == IF Len(hdr) >= 2 THEN hdr[2] ELSE UndefinedWord

\* !token
NoTokenGiven(token) == token = UndefinedWord \/ token = EmptyWord

NoAuth == [outcome |-> "none", status |-> 0, error |-> "", user |-> NoPayload]

authenticateTokenDecodeOnly(hdr, t) ==
    LET token == TokenOf(hdr) IN
    IF NoTokenGiven(token)
    THEN [outcome |-> "reject", status |-> 401,
          error |-> "Access token required", user |-> NoPayload]
    ELSE IF token.kind # "jwt"
    THEN [outcome |-> "reject", status |-> 403,
          error |-> "Invalid or expired token", user |-> NoPayload]
    ELSE [outcome |-> "next", status |-> 0, error |-> "", user |-> token.payload]

\* authenticateToken: 401 without a token, 403 when jwt.verify fails, else
\* req.user = the decoded payload and next()
authenticateToken(hdr, t) ==
    LET token == TokenOf(hdr) IN
    IF NoTokenGiven(token)
    THEN [outcome |-> "reject", status |-> 401,
          error |-> "Access token required", user |-> NoPayload]
    ELSE LET v == jwtVerify(token, JWT_SECRET, t) IN
         IF v.err
         THEN [outcome |-> "reject", status |-> 403,
               error |-> "Invalid or expired token", user |-> NoPayload]
         ELSE [outcome |-> "next", status |-> 0, error |-> "", user |-> v.decoded]

-----------------------------------------------------------------------------
(* The request and its response; at is the clock when the middleware of a
   protected route ran, ran whether the middleware called next() *)

NoReq == [route |-> "none", at |-> 0, hdr |-> <<>>, email |-> "",
          password |-> JsonUndefined, id |-> [hex |-> FALSE, oid |-> 0],
          auth |-> NoAuth, ran |-> FALSE,
          status |-> 0, error |-> "", token |-> NoToken,
          profile |-> [email |-> "", name |-> "", createdAt |-> 0],
          list |-> <<>>, count |-> 0]

\* res.status(status).json({error})
Fail(req, status, error) == [req EXCEPT !.status = status, !.error = error]

\* res.json(...)
Ok(req) == [req EXCEPT !.status = 200]

-----------------------------------------------------------------------------
(* usersCollection *)

\* findOne({email}): the matching documents (findOne yields one of them, or
\* null when there is none)
usersFind(coll, email) == {u \in coll : u.email = email}

usersInsertOneNoIndex(coll, doc) ==
    [ok |-> TRUE, coll |-> coll \cup {doc}]

\* insertOne(user) under the unique index on email that connectDB creates:
\* a duplicate key error when a document with that email is stored
usersInsertOne(coll, doc) ==
    IF \E u \in coll : u.email = doc.email
    THEN [ok |-> FALSE, coll |-> coll]
    ELSE [ok |-> TRUE, coll |-> coll \cup {doc}]

\* updateOne({_id}, {$set: {lastLogin}})
usersUpdateLastLogin(coll, id, t) ==
    {IF u._id = id THEN [u EXCEPT !.lastLogin = t] ELSE u : u \in coll}

\* the value of a variable that holds no document
NoUser == [_id |-> 0, email |-> "", password |-> NoHash, name |-> "",
           createdAt |-> 0, lastLogin |-> 0]

Idle == [pc |-> "idle"]

\* connection c has no request in flight and may send one
Free(c) == conn[c].pc \in {"idle", "answered"}

\* the handler of connection c ends its turn at an await
Await(c, p) == conn' = [conn EXCEPT ![c] = p]

\* the handler of connection c sends its response and ends
Answer(c, r) == conn' = [conn EXCEPT ![c] = [pc |-> "answered", res |-> r]]

-----------------------------------------------------------------------------
(* POST /api/auth/register *)

\* the request arrives: validation, then findOne is called
RegisterCheck(c, email, password, name) ==
    /\ Free(c)
    /\ LET req == [NoReq EXCEPT !.route = "register",
                                !.email = email, !.password = password]
       IN  IF email = "" \/ Falsy(password)
           THEN Answer(c, Fail(req, 400, "Email and password are required"))
           ELSE IF TooShort(password)
           THEN Answer(c, Fail(req, 400, "Password must be at least 6 characters"))
           ELSE /\ Await(c, [pc |-> "register.findOne", req |-> req, name |-> name])
    /\ UNCHANGED <<users, history, nextId, budget, now, issued>>

\* the store applies findOne({email})
RegisterFindOne(c) ==
    /\ conn[c].pc = "register.findOne"
    /\ LET p == conn[c]
       IN  Await(c, [pc |-> "register.found", req |-> p.req, name |-> p.name,
                     existingUser |-> usersFind(users, p.req.email) # {}])
    /\ UNCHANGED <<users, history, nextId, budget, now, issued>>

\* the handler resumes with existingUser: 400, or bcrypt.hash is called
RegisterHash(c, salt) ==
    /\ conn[c].pc = "register.found"
    /\ LET p == conn[c]
       IN  IF p.existingUser
           THEN Answer(c, Fail(p.req, 400, "User already exists"))
           ELSE /\ Await(c, [pc |-> "register.hash", req |-> p.req, name |-> p.name,
                             hashed |-> bcryptHash(p.req.password, BcryptRounds, salt)])
    /\ UNCHANGED <<users, history, nextId, budget, now, issued>>

\* the handler resumes with the hash (a rejection is caught and answered
\* 500), builds the user document, reading the clock twice, and calls
\* insertOne
RegisterBuild(c) ==
    /\ conn[c].pc = "register.hash"
    /\ LET p == conn[c]
           user == [_id |-> 0, email |-> p.req.email, password |-> p.hashed.hash,
                    name |-> IF p.name # "" THEN p.name ELSE LocalPart(p.req.email),
                    createdAt |-> now, lastLogin |-> now]
       IN  IF ~p.hashed.ok
           THEN Answer(c, Fail(p.req, 500, "data must be a string or Buffer and salt must either be a salt string or a number of rounds"))
           ELSE /\ Await(c, [pc |-> "register.insertOne", req |-> p.req, user |-> user])
    /\ UNCHANGED <<users, history, nextId, budget, now, issued>>

\* the store applies insertOne(user); the document gets its _id
RegisterInsert(c) ==
    /\ conn[c].pc = "register.insertOne"
    /\ LET p == conn[c]
           user == [p.user EXCEPT !._id = nextId]
           r == usersInsertOne(users, user)
       IN  /\ Await(c, [pc |-> "register.inserted", req |-> p.req,
                        ok |-> r.ok, user |-> user])
           /\ users' = r.coll
           /\ nextId' = IF r.ok THEN nextId + 1 ELSE nextId
    /\ UNCHANGED <<history, budget, now, issued>>

\* the handler resumes after insertOne: jwt.sign (iat is the clock now) and
\* the response; a rejected insert is caught and answered 500 with the
\* error's message
RegisterRespond(c) ==
    /\ conn[c].pc = "register.inserted"
    /\ LET p == conn[c]
           token == jwtSign(p.user._id, p.user.email, JWT_SECRET, ExpiresInDays, now)
       IN  IF p.ok
           THEN /\ issued' = issued \cup {token}
                /\ Answer(c, [Ok(p.req) EXCEPT !.token = token])
           ELSE /\ Answer(c, Fail(p.req, 500, "E11000 duplicate key error"))
                /\ UNCHANGED issued
    /\ UNCHANGED <<users, history, nextId, budget, now>>

-----------------------------------------------------------------------------
(* POST /api/auth/login *)

\* the request arrives: validation, then findOne is called
LoginCheck(c, email, password) ==
    /\ Free(c)
    /\ LET req == [NoReq EXCEPT !.route = "login",
                                !.email = email, !.password = password]
       IN  IF email = "" \/ Falsy(password)
           THEN Answer(c, Fail(req, 400, "Email and password are required"))
           ELSE /\ Await(c, [pc |-> "login.findOne", req |-> req])
    /\ UNCHANGED <<users, history, nextId, budget, now, issued>>

\* the store applies findOne({email})
LoginFindOne(c) ==
    /\ conn[c].pc = "login.findOne"
    /\ LET p == conn[c]
           found == usersFind(users, p.req.email)
       IN  IF found = {}
           THEN Await(c, [pc |-> "login.found", req |-> p.req,
                          isNull |-> TRUE, user |-> NoUser])
           ELSE \E user \in found :
                  Await(c, [pc |-> "login.found", req |-> p.req,
                            isNull |-> FALSE, user |-> user])
    /\ UNCHANGED <<users, history, nextId, budget, now, issued>>

\* the handler resumes with user: 401, or bcrypt.compare is called
LoginCompare(c) ==
    /\ conn[c].pc = "login.found"
    /\ LET p == conn[c]
       IN  IF p.isNull
           THEN Answer(c, Fail(p.req, 401, "Invalid email or password"))
           ELSE /\ Await(c, [pc |-> "login.compare", req |-> p.req, user |-> p.user,
                             validPassword |-> bcryptCompare(p.req.password,
                                                             p.user.password)])
    /\ UNCHANGED <<users, history, nextId, budget, now, issued>>

\* the handler resumes with validPassword (a rejection is caught and
\* answered 500): 401, or updateOne is called with lastLogin: new Date()
LoginStamp(c) ==
    /\ conn[c].pc = "login.compare"
    /\ LET p == conn[c]
       IN  IF ~p.validPassword.ok
           THEN Answer(c, Fail(p.req, 500, "data and hash must be strings"))
           ELSE IF ~p.validPassword.match
           THEN Answer(c, Fail(p.req, 401, "Invalid email or password"))
           ELSE /\ Await(c, [pc |-> "login.updateOne", req |-> p.req,
                             user |-> p.user, lastLogin |-> now])
    /\ UNCHANGED <<users, history, nextId, budget, now, issued>>

\* the store applies updateOne({_id}, {$set: {lastLogin}})
LoginUpdate(c) ==
    /\ conn[c].pc = "login.updateOne"
    /\ LET p == conn[c]
       IN  /\ users' = usersUpdateLastLogin(users, p.user._id, p.lastLogin)
           /\ Await(c, [pc |-> "login.updated", req |-> p.req, user |-> p.user])
    /\ UNCHANGED <<history, nextId, budget, now, issued>>

\* the handler resumes after updateOne: jwt.sign (iat is the clock now) for
\* the document findOne returned, and the response
LoginRespond(c) ==
    /\ conn[c].pc = "login.updated"
    /\ LET p == conn[c]
           token == jwtSign(p.user._id, p.user.email, JWT_SECRET, ExpiresInDays, now)
       IN  /\ issued' = issued \cup {token}
           /\ Answer(c, [Ok(p.req) EXCEPT !.token = token])
    /\ UNCHANGED <<users, history, nextId, budget, now>>

-----------------------------------------------------------------------------
(* The clock *)

Tick(d, limit) ==
    /\ now + d <= limit
    /\ now' = now + d
    /\ UNCHANGED <<users, history, nextId, budget, conn, issued>>

-----------------------------------------------------------------------------
(* historyCollection *)

historyFindAll(coll, userId) == coll

\* find({userId})
historyFind(coll, userId) == {r \in coll : r.userId = userId}

\* the orders the sort may give the documents with equal keys: for every
\* timestamp in T, each document of S with that timestamp gets a place
\* among the documents that share it
RECURSIVE GroupOrders(_, _)
GroupOrders(S, T) ==
    IF T = {}
    THEN {[r \in {} |-> 1]}
    ELSE LET t == CHOOSE u \in T : TRUE
             group == {r \in S : r.timestamp = t}
             perms == {p \in [group -> 1..Cardinality(group)] :
                         \A q \in group, r \in group : p[q] = p[r] => q = r}
         IN {p @@ o : p \in perms, o \in GroupOrders(S, T \ {t})}

TieOrders(S) ==
    GroupOrders(S, {t \in {r.timestamp : r \in S} :
                      Cardinality({r \in S : r.timestamp = t}) > 1})

Place(o, r) == IF r \in DOMAIN o THEN o[r] ELSE 1

SortAscLimit(S, n) ==
    LET ranked == {[rec |-> r,
                    before |-> Cardinality({q \in S : q.timestamp < r.timestamp})] :
                   r \in S}
        k == IF Cardinality(S) < n THEN Cardinality(S) ELSE n
    IN {[i \in 1..k |->
           (CHOOSE p \in ranked : p.before + Place(o, p.rec) = i).rec] :
        o \in TieOrders(S)}

\* .sort({timestamp: -1}).limit(n).toArray(): every array the driver may
\* return.  A document's index is the number of documents with a larger
\* timestamp plus its place among those with the same timestamp, which the
\* sort does not fix; the first n are kept.
SortDescLimit(S, n) ==
    LET ranked == {[rec |-> r,
                    before |-> Cardinality({q \in S : q.timestamp > r.timestamp})] :
                   r \in S}
        k == IF Cardinality(S) < n THEN Cardinality(S) ELSE n
    IN {[i \in 1..k |->
           (CHOOSE p \in ranked : p.before + Place(o, p.rec) = i).rec] :
        o \in TieOrders(S)}

historyDeleteManyAll(coll, userId) ==
    [coll |-> {}, deletedCount |-> Cardinality(coll)]

\* deleteMany({userId})
historyDeleteMany(coll, userId) ==
    LET hit == {r \in coll : r.userId = userId}
    IN [coll |-> coll \ hit, deletedCount |-> Cardinality(hit)]

historyDeleteOneById(coll, oid, userId) ==
    LET hit == {r \in coll : r._id = oid}
    IN [coll |-> coll \ hit, deletedCount |-> Cardinality(hit)]

\* deleteOne({_id, userId}); _id is unique, so at most one document matches
historyDeleteOne(coll, oid, userId) ==
    LET hit == {r \in coll : r._id = oid /\ r.userId = userId}
    IN [coll |-> coll \ hit, deletedCount |-> Cardinality(hit)]

-----------------------------------------------------------------------------
(* The protected routes: authenticateToken, then the handler.  jwt.verify
   calls back in the turn it is called in, so the middleware and the handler
   up to its first await are one turn. *)

Protected(route, hdr) ==
    [NoReq EXCEPT !.route = route, !.at = now, !.hdr = hdr,
                  !.auth = authenticateToken(hdr, now)]

\* the middleware answers and next() is not called
Rejected(c, req) ==
    /\ req.auth.outcome # "next"
    /\ Answer(c, Fail(req, req.auth.status, req.auth.error))
    /\ UNCHANGED <<users, history, nextId, budget, now, issued>>

\* GET /api/auth/me: the request arrives; findOne is called
AuthMe(c, hdr) ==
    /\ Free(c)
    /\ LET req == Protected("me", hdr) IN
       \/ Rejected(c, req)
       \/ /\ req.auth.outcome = "next"
          /\ Await(c, [pc |-> "me.findOne", req |-> [req EXCEPT !.ran = TRUE]])
          /\ UNCHANGED <<users, history, nextId, budget, now, issued>>

\* the store applies findOne({email: req.user.email})
AuthMeFindOne(c) ==
    /\ conn[c].pc = "me.findOne"
    /\ LET p == conn[c]
           found == usersFind(users, p.req.auth.user.email)
       IN  IF found = {}
           THEN Await(c, [pc |-> "me.found", req |-> p.req,
                          isNull |-> TRUE, user |-> NoUser])
           ELSE \E user \in found :
                  Await(c, [pc |-> "me.found", req |-> p.req,
                            isNull |-> FALSE, user |-> user])
    /\ UNCHANGED <<users, history, nextId, budget, now, issued>>

\* the handler resumes with user: 404, or the profile
AuthMeRespond(c) ==
    /\ conn[c].pc = "me.found"
    /\ LET p == conn[c]
       IN  IF p.isNull
           THEN Answer(c, Fail(p.req, 404, "User not found"))
           ELSE Answer(c, [Ok(p.req) EXCEPT !.profile =
                             [email |-> p.user.email, name |-> p.user.name,
                              createdAt |-> p.user.createdAt]])
    /\ UNCHANGED <<users, history, nextId, budget, now, issued>>

\* POST /api/history/save: the request arrives; validation, the translation
\* is built with timestamp: new Date() and insertOne is called
HistorySave(c, hdr, original, translated, fromLang, toLang) ==
    /\ Free(c)
    /\ LET req == Protected("save", hdr) IN
       \/ Rejected(c, req)
       \/ /\ req.auth.outcome = "next"
          /\ LET run == [req EXCEPT !.ran = TRUE]
                 translation == [_id |-> 0, userId |-> req.auth.user.email,
                                 original |-> original, translated |-> translated,
                                 fromLang |-> fromLang, toLang |-> toLang,
                                 timestamp |-> now]
             IN IF original = "" \/ translated = ""
                THEN /\ Answer(c, Fail(run, 400, "Missing required fields"))
                     /\ UNCHANGED budget
                ELSE /\ budget > 0
                     /\ budget' = budget - 1
                     /\ Await(c, [pc |-> "save.insertOne", req |-> run,
                                  translation |-> translation])
          /\ UNCHANGED <<users, history, nextId, now, issued>>

\* the store applies insertOne(translation); the document gets its _id
HistorySaveInsert(c) ==
    /\ conn[c].pc = "save.insertOne"
    /\ LET p == conn[c]
       IN  /\ history' = history \cup {[p.translation EXCEPT !._id = nextId]}
           /\ nextId' = nextId + 1
           /\ Await(c, [pc |-> "save.inserted", req |-> p.req])
    /\ UNCHANGED <<users, budget, now, issued>>

\* the handler resumes after insertOne
HistorySaveRespond(c) ==
    /\ conn[c].pc = "save.inserted"
    /\ Answer(c, Ok(conn[c].req))
    /\ UNCHANGED <<users, history, nextId, budget, now, issued>>

\* GET /api/history/get: the request arrives; find().sort().limit().toArray()
\* is called
HistoryGet(c, hdr) ==
    /\ Free(c)
    /\ LET req == Protected("get", hdr) IN
       \/ Rejected(c, req)
       \/ /\ req.auth.outcome = "next"
          /\ Await(c, [pc |-> "get.find", req |-> [req EXCEPT !.ran = TRUE]])
          /\ UNCHANGED <<users, history, nextId, budget, now, issued>>

\* the store applies the query
HistoryGetFind(c) ==
    /\ conn[c].pc = "get.find"
    /\ LET p == conn[c] IN
       \E l \in SortDescLimit(historyFind(history, p.req.auth.user.email),
                              HistoryLimit) :
          Await(c, [pc |-> "get.found", req |-> [p.req EXCEPT !.list = l]])
    /\ UNCHANGED <<users, history, nextId, budget, now, issued>>

\* the handler resumes with the array
HistoryGetRespond(c) ==
    /\ conn[c].pc = "get.found"
    /\ Answer(c, Ok(conn[c].req))
    /\ UNCHANGED <<users, history, nextId, budget, now, issued>>

\* DELETE /api/history/clear: the request arrives; deleteMany is called
HistoryClear(c, hdr) ==
    /\ Free(c)
    /\ LET req == Protected("clear", hdr) IN
       \/ Rejected(c, req)
       \/ /\ req.auth.outcome = "next"
          /\ Await(c, [pc |-> "clear.deleteMany", req |-> [req EXCEPT !.ran = TRUE]])
          /\ UNCHANGED <<users, history, nextId, budget, now, issued>>

\* the store applies deleteMany({userId: req.user.email})
HistoryClearDeleteMany(c) ==
    /\ conn[c].pc = "clear.deleteMany"
    /\ LET p == conn[c]
           result == historyDeleteMany(history, p.req.auth.user.email)
       IN  /\ history' = result.coll
           /\ Await(c, [pc |-> "clear.deleted",
                        req |-> [p.req EXCEPT !.count = result.deletedCount]])
    /\ UNCHANGED <<users, nextId, budget, now, issued>>

\* the handler resumes with result.deletedCount
HistoryClearRespond(c) ==
    /\ conn[c].pc = "clear.deleted"
    /\ Answer(c, Ok(conn[c].req))
    /\ UNCHANGED <<users, history, nextId, budget, now, issued>>

\* DELETE /api/history/delete/:id: the request arrives; new ObjectId(id)
\* throws on an id that is not an ObjectId string, which the handler answers
\* 500; else deleteOne is called
HistoryDelete(c, hdr, id) ==
    /\ Free(c)
    /\ LET req == [Protected("delete", hdr) EXCEPT !.id = id] IN
       \/ Rejected(c, req)
       \/ /\ req.auth.outcome = "next"
          /\ LET run == [req EXCEPT !.ran = TRUE]
             IN IF ~id.hex
                THEN Answer(c, Fail(run, 500, "input must be a 24 character hex string"))
                ELSE /\ Await(c, [pc |-> "delete.deleteOne", req |-> run])
          /\ UNCHANGED <<users, history, nextId, budget, now, issued>>

\* the store applies deleteOne({_id, userId: req.user.email})
HistoryDeleteDeleteOne(c) ==
    /\ conn[c].pc = "delete.deleteOne"
    /\ LET p == conn[c]
           result == historyDeleteOne(history, p.req.id.oid, p.req.auth.user.email)
       IN  /\ history' = result.coll
           /\ Await(c, [pc |-> "delete.deleted",
                        req |-> [p.req EXCEPT !.count = result.deletedCount]])
    /\ UNCHANGED <<users, nextId, budget, now, issued>>

\* the handler resumes with result.deletedCount: 404 when it is 0
HistoryDeleteRespond(c) ==
    /\ conn[c].pc = "delete.deleted"
    /\ LET p == conn[c]
       IN  IF p.req.count = 0
           THEN Answer(c, Fail(p.req, 404, "Translation not found"))
           ELSE Answer(c, Ok(p.req))
    /\ UNCHANGED <<users, history, nextId, budget, now, issued>>

-----------------------------------------------------------------------------
(* The requests explored *)

EmailA == "a@x.com"
EmailB == "b@x.com"
Emails == {EmailA, EmailB}
EmailInputs == {""} \cup Emails
RegisterPasswords == {Str("secret1"), Str("short"), Str(""), JsonNumber}
LoginPasswords == {Str("secret1"), Str("secret2"), Str(""), JsonNumber}
NameInputs == {"", "Ann"}
OriginalInputs == {"", "ciao"}
TranslatedInputs == {"", "hello"}

\* a token signed with a key that is not the server's
Forged(t) == [t EXCEPT !.sig = Hmac(t.payload, "attacker-key")]
\* an issued token whose payload was edited, its signature kept
Retargeted(t, email) == [t EXCEPT !.payload.email = email]
Extended(t) == [t EXCEPT !.payload.exp = @ + 1]

TokenInputs ==
    issued \cup {Forged(t) : t \in issued} \cup {Extended(t) : t \in issued}
           \cup UNION {{Retargeted(t, e) : e \in Emails \ {t.payload.email}} :
                        t \in issued}

\* the headers of the main specification: none, a malformed token, an issued
\* token, a forged one
Headers ==
    {<<>>, <<Bearer, Garbage>>}
      \cup {<<Bearer, t>> : t \in issued}
      \cup {<<Bearer, Forged(t)>> : t \in issued}

IssuedHeaders == {<<Bearer, t>> : t \in issued}

\* the headers of the authentication specifications
AuthHeaders ==
    {<<>>, <<Bearer>>, <<Bearer, EmptyWord>>, <<Bearer, Garbage>>}
      \cup {<<Bearer, t>> : t \in TokenInputs}
      \cup {<<Basic, t>> : t \in issued}
      \cup {<<t>> : t \in issued}

\* the ids asked to be deleted: one that is not an ObjectId string, the ids
\* of the stored translations and the id of a user, which no translation has
IdInputs ==
    {[hex |-> FALSE, oid |-> 0]}
      \cup {[hex |-> TRUE, oid |-> r._id] : r \in history}
      \cup {[hex |-> TRUE, oid |-> u._id] : u \in users}

StoredIds == {[hex |-> TRUE, oid |-> r._id] : r \in history}

-----------------------------------------------------------------------------
(* The specifications *)

Init ==
    /\ users = {}
    /\ history = {}
    /\ nextId = 1
    /\ budget = MaxInserts
    /\ now = 0
    /\ conn = [c \in Clients |-> Idle]
    /\ issued = {}

Register(C, E, P, N) ==
    \/ \E c \in C, e \in E, p \in P, n \in N : RegisterCheck(c, e, p, n)
    \/ \E c \in C : RegisterFindOne(c)
    \/ \E c \in C, s \in Salts : RegisterHash(c, s)
    \/ \E c \in C : RegisterBuild(c)
    \/ \E c \in C : RegisterInsert(c)
    \/ \E c \in C : RegisterRespond(c)

Login(C, E, P) ==
    \/ \E c \in C, e \in E, p \in P : LoginCheck(c, e, p)
    \/ \E c \in C : LoginFindOne(c)
    \/ \E c \in C : LoginCompare(c)
    \/ \E c \in C : LoginStamp(c)
    \/ \E c \in C : LoginUpdate(c)
    \/ \E c \in C : LoginRespond(c)

Me(C, H) ==
    \/ \E c \in C, h \in H : AuthMe(c, h)
    \/ \E c \in C : AuthMeFindOne(c)
    \/ \E c \in C : AuthMeRespond(c)

Get(C, H) ==
    \/ \E c \in C, h \in H : HistoryGet(c, h)
    \/ \E c \in C : HistoryGetFind(c)
    \/ \E c \in C : HistoryGetRespond(c)

Save(C, H, O, T) ==
    \/ \E c \in C, h \in H, o \in O, t \in T : HistorySave(c, h, o, t, "it", "en")
    \/ \E c \in C : HistorySaveInsert(c)
    \/ \E c \in C : HistorySaveRespond(c)

Clear(C, H) ==
    \/ \E c \in C, h \in H : HistoryClear(c, h)
    \/ \E c \in C : HistoryClearDeleteMany(c)
    \/ \E c \in C : HistoryClearRespond(c)

Delete(C, H, I) ==
    \/ \E c \in C, h \in H, id \in I : HistoryDelete(c, h, id)
    \/ \E c \in C : HistoryDeleteDeleteOne(c)
    \/ \E c \in C : HistoryDeleteRespond(c)

HistoryRoutes(C, H, O, T, I) ==
    \/ Save(C, H, O, T)
    \/ Get(C, H)
    \/ Clear(C, H)
    \/ Delete(C, H, I)

\* accounts: one connection registers and logs in with every kind of email
\* and password while another registers and logs in as one user
NextUsers ==
    \/ Register({"c1"}, EmailInputs, RegisterPasswords, {""})
    \/ Login({"c1"}, EmailInputs, LoginPasswords)
    \/ Register({"c2"}, {EmailA}, {Str("secret1")}, {""})
    \/ Login({"c2"}, {EmailA}, {Str("secret1")})
    \/ Tick(1, MaxTime)

SpecUsers == Init /\ [][NextUsers]_vars

\* two registered users, each holding a token
SeedUser(id, email, t) ==
    [_id |-> id, email |-> email,
     password |-> bcryptHash(Str("secret1"), BcryptRounds, "salt1").hash,
     name |-> LocalPart(email), createdAt |-> t, lastLogin |-> t]

SeedUsers(t) == {SeedUser(1, EmailA, t), SeedUser(2, EmailB, t)}

SeedTokens(t) == {jwtSign(u._id, u.email, JWT_SECRET, ExpiresInDays, t) :
                    u \in SeedUsers(t)}

InitSeeded ==
    /\ users = SeedUsers(0)
    /\ history = {}
    /\ nextId = 3
    /\ budget = MaxInserts
    /\ now = 0
    /\ conn = [c \in Clients |-> Idle]
    /\ issued = SeedTokens(0)

\* history: one connection uses the protected routes
\* with every kind of input while another uses them with the tokens issued.
\* The clock stands still here: these routes read it only to stamp a saved
\* translation, and the other specifications let it run.
Next ==
    \/ HistoryRoutes({"c1"}, Headers, OriginalInputs, TranslatedInputs, IdInputs)
    \/ HistoryRoutes({"c2"}, IssuedHeaders, {"ciao"}, {"hello"}, StoredIds)

Spec == InitSeeded /\ [][Next]_vars

\* authentication: every kind of Authorization header on every protected
\* route, while the clock runs past the expiry of the tokens that
\* registrations issued
NextAuth ==
    \/ Register({"c1"}, {EmailA}, {Str("secret1")}, {""})
    \/ Me({"c1"}, AuthHeaders)
    \/ HistoryRoutes({"c1"}, AuthHeaders, {"ciao"}, {"hello"}, IdInputs)
    \/ \E d \in {ExpiresInDays - 1, ExpiresInDays, ExpiresInDays + 1} :
          Tick(d, ExpiresInDays + MaxTime)

InitAuth ==
    /\ users = {}
    /\ history = {}
    /\ nextId = 1
    /\ budget = MaxAuthInserts
    /\ now = 0
    /\ conn = [c \in Clients |-> Idle]
    /\ issued = {}

SpecAuth == InitAuth /\ [][NextAuth]_vars

\* tokens: both users register and log in, with and without a name, and
\* present every kind of Authorization header on the two routes that only
\* read, while the clock runs past the expiry of the tokens issued
NextTokens ==
    \/ Register({"c1"}, Emails, {Str("secret1")}, NameInputs)
    \/ Login({"c1"}, Emails, {Str("secret1")})
    \/ Me({"c1"}, AuthHeaders)
    \/ Get({"c1"}, AuthHeaders)
    \/ \E d \in {ExpiresInDays - 1, ExpiresInDays, ExpiresInDays + 1} :
          Tick(d, ExpiresInDays + MaxTime)

SpecTokens == InitAuth /\ [][NextTokens]_vars

\* the cap of the history list: identity A starts with HistoryLimit - 1
\* translations, one saved per day except the two oldest, saved on the same
\* day, and both users registered on the last of these days
SeedHistory ==
    {[_id |-> 2 + i, userId |-> EmailA, original |-> "ciao",
      translated |-> "hello", fromLang |-> "it", toLang |-> "en",
      timestamp |-> IF i = 1 THEN 2 ELSE i] : i \in 1..(HistoryLimit - 1)}

InitLimit ==
    /\ users = SeedUsers(HistoryLimit - 1)
    /\ history = SeedHistory
    /\ nextId = HistoryLimit + 2
    /\ budget = MaxExtraSaves
    /\ now = HistoryLimit - 1
    /\ conn = [c \in Clients |-> Idle]
    /\ issued = SeedTokens(HistoryLimit - 1)

\* the ids deleted: the oldest seeded translation and the new ones
LimitIds ==
    {[hex |-> TRUE, oid |-> i] :
        i \in {3} \cup ((HistoryLimit + 2)..(nextId - 1))}

LimitHeaders == {<<>>} \cup IssuedHeaders

\* one connection saves, gets and deletes as either user while another
\* saves as A
NextLimit ==
    \/ Save({"c1"}, LimitHeaders, {"ciao"}, {"hello"})
    \/ Get({"c1"}, LimitHeaders)
    \/ Delete({"c1"}, LimitHeaders, LimitIds)
    \/ Save({"c2"}, {<<Bearer, t>> : t \in {u \in issued : u.payload.email = EmailA}},
            {"ciao"}, {"hello"})
    \/ Tick(1, HistoryLimit - 1 + MaxTime)

SpecLimit == InitLimit /\ [][NextLimit]_vars

-----------------------------------------------------------------------------
(* Properties *)

Range(l) == {l[i] : i \in DOMAIN l}

ProtectedRoutes == {"me", "save", "get", "clear", "delete"}

\* where the handler of a registration waits
RegisterPcs == {"register.findOne", "register.found", "register.hash",
                "register.insertOne", "register.inserted"}

\* where the handler of a protected route waits
HandlerPcs == {"me.findOne", "me.found", "save.insertOne", "save.inserted",
               "get.find", "get.found", "clear.deleteMany", "clear.deleted",
               "delete.deleteOne", "delete.deleted"}

\* connection c holds a response
Answered(c) == conn[c].pc = "answered"

\* connection c gets a response in this step
Answers(c) == conn'[c] # conn[c] /\ conn'[c].pc = "answered"

\* the token of a header verifies at time t: it is a JWT signed with the
\* server's secret and t is before its expiry, 30 days after it was issued
Verifies(token, t) ==
    /\ token.kind = "jwt"
    /\ token.sig = Hmac(token.payload, JWT_SECRET)
    /\ t < token.payload.iat + ExpiresInDays

\* data is the string the stored digest was computed from
Matches(data, hash) == data.type = "string" /\ hash.digest = <<hash.salt, data.val>>

\* C1: a successful GET /api/history/get returns only records whose userId is
\* the email of the identity in the caller's token.
C1_GetReturnsOnlyOwnRecords ==
    \A c \in Clients :
       (Answered(c) /\ conn[c].res.route = "get" /\ conn[c].res.status = 200)
        => \A i \in DOMAIN conn[c].res.list :
              conn[c].res.list[i].userId = TokenOf(conn[c].res.hdr).payload.email

\* C1 witness: a GET answered with records while the store also holds
\* another identity's records.
C1_Witness ==
    \E c \in Clients :
       /\ Answered(c)
       /\ conn[c].res.route = "get"
       /\ conn[c].res.status = 200
       /\ Len(conn[c].res.list) >= 1
       /\ \E r \in history : r.userId # TokenOf(conn[c].res.hdr).payload.email

\* C2: DELETE /api/history/delete/:id by an authenticated A with the id of an
\* existing record owned by B: the store, applying the delete, removes
\* nothing, every GET B can then make returns the record, and the handler
\* answers 404 without touching the store.
C2_DeleteByNonOwnerIsNotFound ==
    [][\A c \in Clients :
         /\ \A r \in history :
              ( /\ conn[c].pc = "delete.deleteOne"
                /\ conn'[c].pc = "delete.deleted"
                /\ r._id = conn[c].req.id.oid
                /\ r.userId # conn[c].req.auth.user.email )
              => /\ history' = history
                 /\ conn'[c].req.count = 0
                 /\ \A l \in SortDescLimit(historyFind(history', r.userId),
                                           HistoryLimit) : r \in Range(l)
         /\ ( /\ conn[c].pc = "delete.deleted"
              /\ conn[c].req.count = 0
              /\ conn'[c] # conn[c] )
            => /\ Answers(c)
               /\ conn'[c].res.route = "delete"
               /\ conn'[c].res.id = conn[c].req.id
               /\ conn'[c].res.status = 404
               /\ history' = history]_vars

\* C2 witness: a delete by a verified caller was answered 404 while the
\* record with that id exists and belongs to someone else.
C2_Witness ==
    \E c \in Clients :
       /\ Answered(c)
       /\ conn[c].res.route = "delete"
       /\ conn[c].res.ran
       /\ conn[c].res.status = 404
       /\ \E r \in history : /\ r._id = conn[c].res.id.oid
                             /\ r.userId # conn[c].res.auth.user.email

UniqueEmails(coll) == \A u \in coll, v \in coll : u.email = v.email => u = v

\* C3: the user store never holds two records with one email, however
\* registrations interleave, and no step of a registration removes or
\* changes a record that is already stored.
C3_OneUserPerEmail ==
    [][/\ UniqueEmails(users')
       /\ \A c \in Clients :
            ( /\ conn'[c] # conn[c]
              /\ conn[c].pc \in RegisterPcs \/ conn'[c].pc \in RegisterPcs )
            => users \subseteq users']_vars

\* C3 witness: a registration that passed the existence check lost the race
\* at insertOne, and the store holds one record for its email.
C3_Witness ==
    \E c \in Clients :
       /\ Answered(c)
       /\ conn[c].res.route = "register"
       /\ conn[c].res.status = 500
       /\ conn[c].res.error = "E11000 duplicate key error"
       /\ Cardinality(usersFind(users, conn[c].res.email)) = 1

\* C4 (as claimed): a well-formed registration either succeeds with a token
\* or fails with the duplicate-identity response, status 400, and no token.
C4_DuplicateRegistrationAnswers400 ==
    \A c \in Clients :
       ( /\ Answered(c)
         /\ conn[c].res.route = "register"
         /\ conn[c].res.email # ""
         /\ conn[c].res.password.type = "string"
         /\ Len(conn[c].res.password.val) >= MinPasswordLength )
       => \/ conn[c].res.status = 200 /\ conn[c].res.token \in issued
          \/ /\ conn[c].res.status = 400
             /\ conn[c].res.error = "User already exists"
             /\ conn[c].res.token = NoToken

\* C5: a request to a protected route ends in exactly one of: no token, 401,
\* handler not run; a token that fails verification, 403, handler not run; a
\* token that verifies, its identity attached and the handler run.  A request
\* whose handler did not run leaves both collections as they were, and a
\* handler of a protected route is only ever running for a request whose
\* token verified when the middleware ran.
C5_MiddlewareGuardsProtectedRoutes ==
    [][\A c \in Clients :
         /\ (Answers(c) /\ conn'[c].res.route \in ProtectedRoutes) =>
               LET res == conn'[c].res
                   token == TokenOf(res.hdr)
                   valid == Verifies(token, res.at)
               IN /\ NoTokenGiven(token) => res.status = 401 /\ ~res.ran
                  /\ (~NoTokenGiven(token) /\ ~valid) => res.status = 403 /\ ~res.ran
                  /\ (~NoTokenGiven(token) /\ valid) =>
                        /\ res.ran
                        /\ res.auth.user = token.payload
                        /\ res.status \notin {401, 403}
                  /\ ~res.ran => users' = users /\ history' = history
         /\ conn'[c].pc \in HandlerPcs =>
               LET req == conn'[c].req
                   token == TokenOf(req.hdr)
               IN /\ ~NoTokenGiven(token)
                  /\ Verifies(token, req.at)
                  /\ req.ran
                  /\ req.auth.user = token.payload]_vars

\* C5 witness: a protected request carrying an issued token that no longer
\* verifies was answered 403 without running its handler.
C5_Witness ==
    \E c \in Clients :
       /\ Answered(c)
       /\ conn[c].res.route \in ProtectedRoutes
       /\ TokenOf(conn[c].res.hdr) \in issued
       /\ conn[c].res.status = 403
       /\ ~conn[c].res.ran

\* the request connection c has in flight or has had answered
Exchange(c) ==
    IF conn[c].pc = "idle" THEN NoReq
    ELSE IF conn[c].pc = "answered" THEN conn[c].res ELSE conn[c].req

\* C6: a presented token is accepted exactly when it is signed with the
\* server's secret and the time is before its expiry, 30 days after issuance;
\* an accepted token was issued by register or login and resolves to the
\* email of the user it was issued for.
C6_TokenValidity ==
    /\ \A t \in issued :
          /\ t.payload.exp = t.payload.iat + ExpiresInDays
          /\ \E u \in users : u._id = t.payload.userId /\ u.email = t.payload.email
    /\ \A c \in Clients :
          LET x == Exchange(c)
              token == TokenOf(x.hdr)
          IN (x.route \in ProtectedRoutes /\ ~NoTokenGiven(token)) =>
                /\ (x.auth.outcome = "next") <=> Verifies(token, x.at)
                /\ x.auth.outcome = "next" =>
                      /\ token \in issued
                      /\ x.auth.user.email = token.payload.email
                      /\ x.auth.user.userId = token.payload.userId

\* C6 witness: an issued token presented exactly at its expiry was rejected.
C6_Witness ==
    \E c \in Clients :
       /\ Answered(c)
       /\ conn[c].res.route \in ProtectedRoutes
       /\ TokenOf(conn[c].res.hdr) \in issued
       /\ conn[c].res.at = TokenOf(conn[c].res.hdr).payload.iat + ExpiresInDays
       /\ conn[c].res.status = 403

\* C7 (as claimed): a login for an existing email with a password that is
\* not the user's answers 401 and issues no token.
C7_WrongPasswordAnswers401 ==
    \A c \in Clients :
       ( /\ Answered(c)
         /\ conn[c].res.route = "login"
         /\ ~Falsy(conn[c].res.password)
         /\ \E u \in users : /\ u.email = conn[c].res.email
                             /\ ~Matches(conn[c].res.password, u.password) )
       => conn[c].res.status = 401 /\ conn[c].res.token = NoToken

\* C8 (as claimed): a failed login answers 401 with one body, whether the
\* email has no user record or the password is not the user's.
C8_LoginFailureUniform ==
    \A c \in Clients :
       ( /\ Answered(c)
         /\ conn[c].res.route = "login"
         /\ conn[c].res.email # ""
         /\ ~Falsy(conn[c].res.password)
         /\ conn[c].res.status # 200 )
       => /\ conn[c].res.status = 401
          /\ conn[c].res.error = "Invalid email or password"

\* C9: DELETE /api/history/clear by an authenticated A: the store, applying
\* the delete, removes exactly A's records, and the handler answers 200 with
\* their number without touching the store.
C9_ClearRemovesExactlyOwnRecords ==
    [][\A c \in Clients :
         /\ (conn[c].pc = "clear.deleteMany" /\ conn'[c].pc = "clear.deleted") =>
               LET mine == {r \in history : r.userId = conn[c].req.auth.user.email}
               IN /\ conn[c].req.auth.user.email = TokenOf(conn[c].req.hdr).payload.email
                  /\ history' = history \ mine
                  /\ conn'[c].req.count = Cardinality(mine)
         /\ (conn[c].pc = "clear.deleted" /\ conn'[c] # conn[c]) =>
               /\ Answers(c)
               /\ conn'[c].res.route = "clear"
               /\ conn'[c].res.status = 200
               /\ conn'[c].res.count = conn[c].req.count
               /\ history' = history]_vars

\* C9 witness: a clear removed some records and another identity's remain.
C9_Witness ==
    \E c \in Clients :
       /\ Answered(c)
       /\ conn[c].res.route = "clear"
       /\ conn[c].res.status = 200
       /\ conn[c].res.count > 0
       /\ \E r \in history : r.userId # conn[c].res.auth.user.email

\* C10: GET /api/history/get: the array the store yields holds the caller's
\* records in descending order of timestamp, min(100, n) of the caller's n
\* records, none of them older than a record of the caller that is left out,
\* and the handler answers 200 with that array.
C10_GetNewestFirstCapped ==
    [][\A c \in Clients :
         /\ (conn[c].pc = "get.find" /\ conn'[c].pc = "get.found") =>
               LET mine == {r \in history : r.userId = conn[c].req.auth.user.email}
                   l == conn'[c].req.list
                   n == Cardinality(mine)
               IN /\ Len(l) = IF n < HistoryLimit THEN n ELSE HistoryLimit
                  /\ Range(l) \subseteq mine
                  /\ Cardinality(Range(l)) = Len(l)
                  /\ \A i \in 1..(Len(l) - 1) : l[i].timestamp >= l[i + 1].timestamp
                  /\ \A r \in mine \ Range(l) :
                        \A i \in DOMAIN l : r.timestamp <= l[i].timestamp
         /\ (conn[c].pc = "get.found" /\ conn'[c] # conn[c]) =>
               /\ Answers(c)
               /\ conn'[c].res.route = "get"
               /\ conn'[c].res.status = 200
               /\ conn'[c].res.list = conn[c].req.list]_vars

\* C10 witness: a GET was answered with 100 records while one of the
\* caller's first records, stored all along, is left out.
C10_Witness ==
    \E c \in Clients :
       /\ Answered(c)
       /\ conn[c].res.route = "get"
       /\ conn[c].res.status = 200
       /\ Len(conn[c].res.list) = HistoryLimit
       /\ \E r \in history \cap SeedHistory :
             /\ r.userId = conn[c].res.auth.user.email
             /\ r \notin Range(conn[c].res.list)

====
